---- MODULE Spec2Model ----
(***************************************************************************)
(* Model of source/port/WINDOWS/tbxport.c of MicroTBX: the critical        *)
(* section port TbxPortInterruptsDisable() / TbxPortInterruptsRestore()    *)
(* built on a lazily initialised Win32 CRITICAL_SECTION.                   *)
(*                                                                         *)
(* Every statement of the two functions that touches shared state is one   *)
(* atomic step of the calling context; contexts (threads) interleave       *)
(* freely between those steps.                                             *)
(***************************************************************************)
EXTENDS Integers, FiniteSets, TLC

(* ------------------------------ bounds -------------------------------- *)

\* number of concurrent contexts (threads) that use the port
NumCtx == 2
\* number of outermost protected sections each context performs
Rounds == 2
\* deepest nesting of TbxPortInterruptsDisable() calls by one context
MaxNest == 2
\* largest value a caller passes as prev_cpu_sr
MaxToken == 1

Ctx == 1..NumCtx
Tokens == 0..MaxToken

(* --------------------------- program values --------------------------- *)

TBX_FALSE == FALSE
TBX_TRUE == TRUE

\* OwningThread of a critical section nobody owns (a NULL handle); contexts
\* are numbered from 1. Locals and arguments of a function that is not
\* executing are kept at 0.
NoThread == 0

(* ------------------- the Win32 CRITICAL_SECTION API -------------------- *)

\* the static object before InitializeCriticalSection(): zeroed storage
UnconstructedCS ==
    [constructed |-> FALSE, OwningThread |-> NoThread, RecursionCount |-> 0,
     broken |-> FALSE]

\* a construction that does nothing
InitializeCriticalSection_Noop(cs) ==
    cs

\* InitializeCriticalSection(&criticalSection): the object is (over)written
\* with a fresh, unowned state, whatever it held before
InitializeCriticalSection(cs) ==
    [constructed |-> TRUE, OwningThread |-> NoThread, RecursionCount |-> 0,
     broken |-> FALSE]

\* a lock that never makes a second thread wait
CanEnterCriticalSection_NoWait(cs, t) ==
    ~cs.broken

\* EnterCriticalSection() returns to thread t only when the object is unowned
\* or already owned by t (recursive acquisition); otherwise t waits
CanEnterCriticalSection(cs, t) ==
    /\ ~cs.broken
    /\ cs.OwningThread \in {NoThread, t}

\* the object after EnterCriticalSection() has returned to thread t
EnterCriticalSection(cs, t) ==
    [cs EXCEPT !.OwningThread = t, !.RecursionCount = cs.RecursionCount + 1]

\* one level of ownership released; the owner is cleared with the last level
ReleaseLevel(cs) ==
    IF cs.RecursionCount > 1
    THEN [cs EXCEPT !.RecursionCount = cs.RecursionCount - 1]
    ELSE [cs EXCEPT !.RecursionCount = 0, !.OwningThread = NoThread]

\* LeaveCriticalSection() by thread t: the set of possible resulting objects.
\* By the owner: one level is released. By a thread that does not own the
\* object the behaviour is undefined ("an error occurs that may cause another
\* thread using EnterCriticalSection to wait indefinitely"): either a level of
\* whoever holds it is released (nothing, when nothing is held), or the
\* object is left in a state in which EnterCriticalSection waits forever.
LeaveCriticalSection(cs, t) ==
    IF cs.OwningThread = t
    THEN {ReleaseLevel(cs)}
    ELSE {IF cs.RecursionCount > 0 THEN ReleaseLevel(cs) ELSE cs,
          [cs EXCEPT !.broken = TRUE]}

(* ------------------------------- state -------------------------------- *)

VARIABLES
    criticalSectionInitialized, \* static volatile uint8_t flag
    criticalSection,            \* static CRITICAL_SECTION object
    pc,                         \* per context: the statement it is about to execute
    result,                     \* per context: local 'result' of TbxPortInterruptsDisable
    prev_cpu_sr,                \* per context: argument of TbxPortInterruptsRestore
    token,                      \* per context: the set of values TbxPortInterruptsDisable
                                \* has returned to it
    depth,                      \* per context: Enter calls returned, not yet matched by a Leave
    peak,                       \* per context: deepest nesting reached in the current section
    rounds,                     \* per context: outermost sections completed
    didInc,                     \* per context: counter incremented in the current section
    tmp,                        \* per context: value of the counter it has read
    counter,                    \* the shared counter the callers protect
    initCount,                  \* number of InitializeCriticalSection() executions
    heldAtCall                  \* per context: who was inside (and in which of its
                                \* sections) when its last outermost Enter call began

vars == <<criticalSectionInitialized, criticalSection, pc, result, prev_cpu_sr,
          token, depth, peak, rounds, didInc, tmp, counter, initCount, heldAtCall>>

shared == <<criticalSectionInitialized, criticalSection, counter, initCount>>
callerVars == <<token, depth, peak, rounds, didInc, tmp, heldAtCall>>

\* context t is between the return of its outermost Enter and its matching Leave
Inside(t) == depth[t] >= 1

\* context t has done all its sections
Finished(t) == pc[t] = "idle" /\ depth[t] = 0 /\ rounds[t] = Rounds

\* context t has not called anything yet (of a correctly paired caller)
Untouched(t) == pc[t] = "idle" /\ depth[t] = 0 /\ rounds[t] = 0

Init ==
    /\ criticalSectionInitialized = TBX_FALSE
    /\ criticalSection = UnconstructedCS
    /\ pc = [t \in Ctx |-> "idle"]
    /\ result = [t \in Ctx |-> 0]
    /\ prev_cpu_sr = [t \in Ctx |-> 0]
    /\ token = [t \in Ctx |-> {}]
    /\ depth = [t \in Ctx |-> 0]
    /\ peak = [t \in Ctx |-> 0]
    /\ rounds = [t \in Ctx |-> 0]
    /\ didInc = [t \in Ctx |-> FALSE]
    /\ tmp = [t \in Ctx |-> 0]
    /\ counter = 0
    /\ initCount = 0
    /\ heldAtCall = [t \in Ctx |-> {}]

(* ------------------- TbxPortInterruptsDisable (Enter) ------------------ *)

\* the caller invokes TbxPortInterruptsDisable(); 'result = 0' is executed.
\* A caller starts at most Rounds sections and, within a section, makes its
\* nested Enter calls consecutively (before its first Leave), at most MaxNest.
CallDisable(t) ==
    /\ pc[t] = "idle"
    /\ depth[t] < MaxNest
    /\ IF depth[t] = 0 THEN rounds[t] < Rounds ELSE peak[t] = depth[t]
    /\ pc' = [pc EXCEPT ![t] = "dis_check"]
    /\ result' = [result EXCEPT ![t] = 0]
    /\ heldAtCall' = IF depth[t] = 0
                     THEN [heldAtCall EXCEPT ![t] =
                             {<<u, rounds[u]>> : u \in {v \in Ctx \ {t} : Inside(v)}}]
                     ELSE heldAtCall
    /\ UNCHANGED <<shared, prev_cpu_sr, token, depth, peak, rounds, didInc, tmp>>

\* the flag test dropped: every Enter constructs the object
DisableCheck_AlwaysInit(t) ==
    /\ pc[t] = "dis_check"
    /\ pc' = [pc EXCEPT ![t] = "dis_init"]
    /\ UNCHANGED <<shared, result, prev_cpu_sr, callerVars>>

\* if (criticalSectionInitialized == TBX_FALSE)
DisableCheck(t) ==
    /\ pc[t] = "dis_check"
    /\ pc' = [pc EXCEPT ![t] = IF criticalSectionInitialized = TBX_FALSE
                               THEN "dis_init" ELSE "dis_enter"]
    /\ UNCHANGED <<shared, result, prev_cpu_sr, callerVars>>

\* a construction that also clears the flag
DisableInit_ResetsFlag(t) ==
    /\ pc[t] = "dis_init"
    /\ criticalSection' = InitializeCriticalSection(criticalSection)
    /\ criticalSectionInitialized' = TBX_FALSE
    /\ initCount' = initCount + 1
    /\ pc' = [pc EXCEPT ![t] = "dis_setflag"]
    /\ UNCHANGED <<counter, result, prev_cpu_sr, callerVars>>

\* InitializeCriticalSection((CRITICAL_SECTION *)&criticalSection);
DisableInit(t) ==
    /\ pc[t] = "dis_init"
    /\ criticalSection' = InitializeCriticalSection(criticalSection)
    /\ initCount' = initCount + 1
    /\ pc' = [pc EXCEPT ![t] = "dis_setflag"]
    /\ UNCHANGED <<criticalSectionInitialized, counter, result, prev_cpu_sr, callerVars>>

\* the flag write forgotten
DisableSetFlag_NoWrite(t) ==
    /\ pc[t] = "dis_setflag"
    /\ pc' = [pc EXCEPT ![t] = "dis_enter"]
    /\ UNCHANGED <<shared, result, prev_cpu_sr, callerVars>>

\* criticalSectionInitialized = TBX_TRUE;
DisableSetFlag(t) ==
    /\ pc[t] = "dis_setflag"
    /\ criticalSectionInitialized' = TBX_TRUE
    /\ pc' = [pc EXCEPT ![t] = "dis_enter"]
    /\ UNCHANGED <<criticalSection, counter, initCount, result, prev_cpu_sr, callerVars>>

\* EnterCriticalSection((CRITICAL_SECTION *)&criticalSection); return result;
DisableEnter(t) ==
    /\ pc[t] = "dis_enter"
    /\ CanEnterCriticalSection(criticalSection, t)
    /\ criticalSection' = EnterCriticalSection(criticalSection, t)
    /\ token' = [token EXCEPT ![t] = token[t] \cup {result[t]}]
    /\ result' = [result EXCEPT ![t] = 0]
    /\ depth' = [depth EXCEPT ![t] = depth[t] + 1]
    /\ peak' = [peak EXCEPT ![t] = depth[t] + 1]
    /\ pc' = [pc EXCEPT ![t] = "idle"]
    /\ UNCHANGED <<criticalSectionInitialized, counter, initCount, prev_cpu_sr,
                   rounds, didInc, tmp, heldAtCall>>

(* ------------------- TbxPortInterruptsRestore (Leave) ------------------ *)

\* the pc of a context stopped by a failed TBX_ASSERT (the assertion is fatal)
AssertionFailed == "asserted"

\* an assertion that checks nothing
AssertCondition_NoCheck(flag) == TRUE

\* TBX_ASSERT(criticalSectionInitialized == TBX_TRUE): the asserted condition
AssertCondition(flag) == flag = TBX_TRUE

\* a correctly paired caller invokes TbxPortInterruptsRestore(sr) for an
\* Enter of its own that has returned; the outermost Leave follows its increment
CallRestore(t, sr) ==
    /\ pc[t] = "idle"
    /\ depth[t] > 0
    /\ depth[t] > 1 \/ didInc[t]
    /\ prev_cpu_sr' = [prev_cpu_sr EXCEPT ![t] = sr]
    /\ pc' = [pc EXCEPT ![t] = "res_assert"]
    /\ UNCHANGED <<shared, result, callerVars>>

\* a caller invokes TbxPortInterruptsRestore(sr) with no matching Enter
CallRestoreUnmatched(t, sr) ==
    /\ pc[t] = "idle"
    /\ depth[t] = 0
    /\ prev_cpu_sr' = [prev_cpu_sr EXCEPT ![t] = sr]
    /\ pc' = [pc EXCEPT ![t] = "res_assert"]
    /\ UNCHANGED <<shared, result, callerVars>>

\* an assertion that also demands that the caller owns the critical section
RestoreAssert_ChecksOwner(t) ==
    /\ pc[t] = "res_assert"
    /\ pc' = [pc EXCEPT ![t] =
                IF /\ AssertCondition(criticalSectionInitialized)
                   /\ criticalSection.OwningThread = t
                THEN "res_leave" ELSE AssertionFailed]
    /\ UNCHANGED <<shared, result, prev_cpu_sr, callerVars>>

\* TBX_ASSERT(criticalSectionInitialized == TBX_TRUE); a failed assertion is
\* fatal: the context does not continue
RestoreAssert(t) ==
    /\ pc[t] = "res_assert"
    /\ pc' = [pc EXCEPT ![t] = IF AssertCondition(criticalSectionInitialized)
                               THEN "res_leave" ELSE AssertionFailed]
    /\ UNCHANGED <<shared, result, prev_cpu_sr, callerVars>>

\* a Leave that interprets its argument: it releases only for prev_cpu_sr = 0
RestoreLeave_UsesToken(t) ==
    /\ pc[t] = "res_leave"
    /\ criticalSection' \in IF prev_cpu_sr[t] = 0
                            THEN LeaveCriticalSection(criticalSection, t)
                            ELSE {criticalSection}
    /\ prev_cpu_sr' = [prev_cpu_sr EXCEPT ![t] = 0]
    /\ pc' = [pc EXCEPT ![t] = "idle"]
    /\ depth' = [depth EXCEPT ![t] = IF depth[t] > 0 THEN depth[t] - 1 ELSE 0]
    /\ rounds' = [rounds EXCEPT ![t] = IF depth[t] = 1 THEN rounds[t] + 1 ELSE rounds[t]]
    /\ didInc' = [didInc EXCEPT ![t] = IF depth[t] = 1 THEN FALSE ELSE didInc[t]]
    /\ peak' = [peak EXCEPT ![t] = IF depth[t] = 1 THEN 0 ELSE peak[t]]
    /\ UNCHANGED <<criticalSectionInitialized, counter, initCount, result, token,
                   tmp, heldAtCall>>

\* LeaveCriticalSection((CRITICAL_SECTION *)&criticalSection); return
RestoreLeave(t) ==
    /\ pc[t] = "res_leave"
    /\ criticalSection' \in LeaveCriticalSection(criticalSection, t)
    /\ prev_cpu_sr' = [prev_cpu_sr EXCEPT ![t] = 0]
    /\ pc' = [pc EXCEPT ![t] = "idle"]
    /\ IF depth[t] > 1
       THEN /\ depth' = [depth EXCEPT ![t] = depth[t] - 1]
            /\ UNCHANGED <<rounds, didInc, peak>>
       ELSE IF depth[t] = 1
       THEN /\ depth' = [depth EXCEPT ![t] = 0]
            /\ rounds' = [rounds EXCEPT ![t] = rounds[t] + 1]
            /\ didInc' = [didInc EXCEPT ![t] = FALSE]
            /\ peak' = [peak EXCEPT ![t] = 0]
       ELSE UNCHANGED <<depth, rounds, didInc, peak>>
    /\ UNCHANGED <<criticalSectionInitialized, counter, initCount, result, token,
                   tmp, heldAtCall>>

(* ------------- the callers' protected work: counter = counter + 1 ------ *)

\* the read of the shared counter, inside the section
CounterRead(t) ==
    /\ pc[t] = "idle"
    /\ Inside(t)
    /\ ~didInc[t]
    /\ tmp' = [tmp EXCEPT ![t] = counter]
    /\ pc' = [pc EXCEPT ![t] = "write"]
    /\ UNCHANGED <<shared, result, prev_cpu_sr, token, depth, peak, rounds, didInc,
                   heldAtCall>>

\* the write of the value read plus one
CounterWrite(t) ==
    /\ pc[t] = "write"
    /\ counter' = tmp[t] + 1
    /\ tmp' = [tmp EXCEPT ![t] = 0]
    /\ didInc' = [didInc EXCEPT ![t] = TRUE]
    /\ pc' = [pc EXCEPT ![t] = "idle"]
    /\ UNCHANGED <<criticalSectionInitialized, criticalSection, initCount, result,
                   prev_cpu_sr, token, depth, peak, rounds, heldAtCall>>

(* --------------------------- specifications --------------------------- *)

\* one step of context t as a correctly paired caller
Proc(t) ==
    \/ CallDisable(t)
    \/ DisableCheck(t)
    \/ DisableInit(t)
    \/ DisableSetFlag(t)
    \/ DisableEnter(t)
    \/ \E sr \in Tokens : CallRestore(t, sr)
    \/ RestoreAssert(t)
    \/ RestoreLeave(t)
    \/ CounterRead(t)
    \/ CounterWrite(t)

\* correctly paired callers
Next ==
    \/ \E t \in Ctx : CallDisable(t)
    \/ \E t \in Ctx : DisableCheck(t)
    \/ \E t \in Ctx : DisableInit(t)
    \/ \E t \in Ctx : DisableSetFlag(t)
    \/ \E t \in Ctx : DisableEnter(t)
    \/ \E t \in Ctx : \E sr \in Tokens : CallRestore(t, sr)
    \/ \E t \in Ctx : RestoreAssert(t)
    \/ \E t \in Ctx : RestoreLeave(t)
    \/ \E t \in Ctx : CounterRead(t)
    \/ \E t \in Ctx : CounterWrite(t)

Spec == Init /\ [][Next]_vars

\* callers that may also call Leave without a matching Enter
NextAny ==
    \/ Next
    \/ \E t \in Ctx : \E sr \in Tokens : CallRestoreUnmatched(t, sr)

SpecAny == Init /\ [][NextAny]_vars

\* correctly paired callers under a fair scheduler: a context that can take a
\* step eventually takes one (so every holder eventually calls its Leave)
FairSpec == Spec /\ \A t \in Ctx : WF_vars(Proc(t))

TypeOK ==
    /\ criticalSectionInitialized \in BOOLEAN
    /\ criticalSection.OwningThread \in Ctx \cup {NoThread}
    /\ criticalSection.RecursionCount \in 0..MaxNest
    /\ \A t \in Ctx : depth[t] \in 0..MaxNest /\ rounds[t] \in 0..Rounds
    /\ counter \in 0..(NumCtx * Rounds)
    /\ initCount \in 0..NumCtx

(* ------------------------------- claims ------------------------------- *)

\* context t is outside any section and not executing a call
IdleOutside(t) == pc[t] = "idle" /\ depth[t] = 0

\* C1: mutual exclusion: at most one context is between the return of its
\* outermost Enter and its matching Leave, also when the first Enter calls
\* race through the flag test.
C1_MutualExclusion ==
    \A a \in Ctx : \A b \in Ctx : a # b => ~(Inside(a) /\ Inside(b))

\* C2: no lost updates: once every context has done its Rounds sections, each
\* with one read and one write of counter + 1, the counter is NumCtx * Rounds.
C2_NoLostUpdates ==
    (\A t \in Ctx : Finished(t)) => counter = NumCtx * Rounds

\* the holder of at least one level is not made to wait by an inner Enter
InnerEnterNotBlocked ==
    \A t \in Ctx :
        (pc[t] = "dis_enter" /\ depth[t] >= 1)
            => CanEnterCriticalSection(criticalSection, t)

\* C3: nesting round trip: a context that nests Enter is never blocked on an
\* inner Enter, and the Leave that matches its outermost Enter leaves the
\* protection as it was before the first Enter: held by nobody and usable.
C3_NestingRoundTrip ==
    [][/\ InnerEnterNotBlocked
       /\ InnerEnterNotBlocked'
       /\ \A t \in Ctx :
            (depth[t] = 1 /\ depth'[t] = 0)
                => /\ criticalSection'.OwningThread = NoThread
                   /\ criticalSection'.RecursionCount = 0
                   /\ ~criticalSection'.broken]_vars

\* C4 as stated: a Leave without a matching Enter of the caller always
\* triggers the assertion: it never gets to LeaveCriticalSection.
C4_UnmatchedLeaveAsserts ==
    \A t \in Ctx : ~(pc[t] = "res_leave" /\ depth[t] = 0)

\* C4 as amended: a Leave without a matching Enter triggers the fatal
\* assertion, touching nothing, whenever the initialisation flag is still
\* false when the assertion is evaluated (as when no Enter happened at all).
C4_UnmatchedLeaveAssertsBeforeInit ==
    [][\A t \in Ctx :
         (/\ pc[t] = "res_assert"
          /\ depth[t] = 0
          /\ criticalSectionInitialized = TBX_FALSE
          /\ pc'[t] # pc[t])
            => /\ pc'[t] = AssertionFailed
               /\ criticalSection' = criticalSection
               /\ criticalSectionInitialized' = criticalSectionInitialized]_vars

\* an unmatched Leave, made before any Enter set the flag, has hit the assertion
C4_Witness ==
    \E t \in Ctx : pc[t] = AssertionFailed /\ depth[t] = 0 /\ token[t] = {}

\* C5: InitializeCriticalSection is executed at most once in every run.
C5_ConstructedAtMostOnce ==
    initCount <= 1

\* context t is in, or has just completed, its first section
FirstSection(t) ==
    rounds[t] = 0 \/ (rounds[t] = 1 /\ IdleOutside(t))

\* the two-thread scenario: only a and b run, each is in (or has just
\* completed) its first section, and b's Enter call began while a was inside
ScenarioAB(a, b) ==
    /\ a # b
    /\ \A o \in Ctx \ {a, b} : Untouched(o)
    /\ <<a, 0>> \in heldAtCall[b]
    /\ FirstSection(a)
    /\ FirstSection(b)

\* C6: two threads, B calling Enter while A is inside: B's Enter does not
\* return while A is inside, and when both have done their section (one
\* increment each) the counter is 2.
C6_TwoThreadScenario ==
    \A a \in Ctx : \A b \in Ctx :
        ScenarioAB(a, b) =>
            /\ ~(Inside(a) /\ Inside(b))
            /\ (Inside(b) /\ didInc[b]) => counter = 2
            /\ (Inside(a) /\ didInc[a]) => counter = 1
            /\ (rounds[a] = 1 /\ rounds[b] = 1) => counter = 2

\* B called Enter during A's section and both sections are done
C6_Witness ==
    \E a \in Ctx : \E b \in Ctx :
        /\ ScenarioAB(a, b)
        /\ rounds[a] = 1 /\ rounds[b] = 1 /\ IdleOutside(a) /\ IdleOutside(b)
        /\ counter = 2

\* C7: with correctly paired callers the assertion of TbxPortInterruptsRestore
\* never fires, whatever the nesting and the interleaving, every value Enter
\* returns is the plain token 0 (there is no error value), and an Enter that
\* is the very first call of the program is not made to wait.
C7_PairedCallsNeverFail ==
    /\ \A t \in Ctx : pc[t] # AssertionFailed
    /\ \A t \in Ctx : pc[t] = "res_leave" => criticalSection.constructed
    /\ \A t \in Ctx :
        (pc[t] = "dis_enter" /\ \A o \in Ctx \ {t} : Untouched(o))
            => CanEnterCriticalSection(criticalSection, t)

\* a context has completed a section while another is nested two deep
C7_Witness ==
    \E t \in Ctx : \E u \in Ctx \ {t} :
        rounds[t] >= 1 /\ depth[u] = 2 /\ pc[u] = "res_leave"

\* C8: partial release keeps protection: a context that nested at least two
\* Enter calls and has not yet made the Leave matching the outermost one
\* still owns the protection and no other context is inside.
C8_PartialReleaseKeepsProtection ==
    \A t \in Ctx :
        (peak[t] >= 2 /\ depth[t] >= 1)
            => /\ criticalSection.OwningThread = t
               /\ \A u \in Ctx \ {t} : ~Inside(u)

\* t's outermost Enter call is at EnterCriticalSection, and began while
\* another context was inside
ContendedEnter(t) ==
    pc[t] = "dis_enter" /\ depth[t] = 0 /\ heldAtCall[t] # {}

\* C9: a contended Enter returns only after the holders it found inside have
\* made their outermost Leave, and (fair scheduler, holders leave) it
\* eventually returns with the protection held.
C9_ContendedEnterSucceeds ==
    /\ [][\A t \in Ctx :
            (ContendedEnter(t) /\ pc'[t] = "idle")
                => \A h \in heldAtCall[t] : ~(Inside(h[1]) /\ rounds[h[1]] = h[2])]_vars
    /\ \A t \in Ctx :
            ContendedEnter(t) ~> (Inside(t) /\ criticalSection.OwningThread = t)

\* C10: every value TbxPortInterruptsDisable returns is 0, and what
\* TbxPortInterruptsRestore does to the protection state is determined by the
\* object and the caller alone, whatever prev_cpu_sr is.
C10_TokenCarriesNothing ==
    [][/\ \A t \in Ctx : token'[t] \subseteq {0}
       /\ \A t \in Ctx :
            (pc[t] = "res_leave" /\ pc'[t] # "res_leave")
                => /\ criticalSection' \in LeaveCriticalSection(criticalSection, t)
                   /\ criticalSectionInitialized' = criticalSectionInitialized]_vars

\* a nested Leave is under way with an argument that is not the token Enter
\* returned, by a context to which Enter returned 0 at both depths
C10_Witness ==
    \E t \in Ctx :
        /\ pc[t] = "res_leave" /\ prev_cpu_sr[t] # 0
        /\ token[t] = {0} /\ peak[t] = 2 /\ rounds[t] >= 1

\* C11: the initialisation flag is monotonic: it starts false and no step of
\* any context, in any interleaving of Enter and Leave calls (matched or
\* not), takes it from true back to false.
C11_FlagMonotonic ==
    /\ criticalSectionInitialized = TBX_FALSE
    /\ [][criticalSectionInitialized = TBX_TRUE
            => criticalSectionInitialized' = TBX_TRUE]_vars

\* the flag is true after the object was constructed a second time and
\* sections were completed
C11_Witness ==
    /\ criticalSectionInitialized = TBX_TRUE
    /\ initCount >= 2
    /\ \E t \in Ctx : rounds[t] >= 1

\* context t waits in EnterCriticalSection
Blocked(t) ==
    pc[t] = "dis_enter" /\ ~CanEnterCriticalSection(criticalSection, t)

\* C12: the backing object stays valid once constructed:
\* InitializeCriticalSection is never executed while some context holds the
\* object or is blocked waiting on it, so a holder's ownership and recursion
\* state is never reset underneath it, also under a racing first Enter.
C12_NoConstructionWhileInUse ==
    [][initCount' # initCount
          => /\ criticalSection.OwningThread = NoThread
             /\ criticalSection.RecursionCount = 0
             /\ \A t \in Ctx : ~Inside(t) /\ ~Blocked(t)]_vars

\* the construction state: the object exists, how often it was constructed,
\* and the flag
construction == <<criticalSection.constructed, initCount, criticalSectionInitialized>>

\* context t is executing TbxPortInterruptsDisable
InDisable(t) == pc[t] \in {"dis_check", "dis_init", "dis_setflag", "dis_enter"}

\* t is the only context that has ever called Enter
SoleEnterCaller(t) ==
    \A o \in Ctx \ {t} : token[o] = {} /\ ~InDisable(o)

\* t has executed InitializeCriticalSection in its first Enter
PastConstruction(t) ==
    token[t] # {} \/ pc[t] \in {"dis_setflag", "dis_enter"}

\* C13: frame of construction: an Enter that reads the flag as true goes
\* straight to EnterCriticalSection without constructing the object or
\* writing the flag; no step of Leave constructs or destroys the object or
\* writes the flag; so when a single context uses Enter, the object is
\* constructed exactly in its first Enter and never again.
C13_ConstructionFrame ==
    [][/\ \A t \in Ctx :
            (/\ pc[t] = "dis_check"
             /\ criticalSectionInitialized = TBX_TRUE
             /\ pc'[t] # pc[t])
                => pc'[t] = "dis_enter" /\ construction' = construction
       /\ \A t \in Ctx :
            (pc[t] \in {"dis_enter", "res_assert", "res_leave"} /\ pc'[t] # pc[t])
                => construction' = construction
       /\ \A t \in Ctx :
            (pc[t] = "idle" /\ pc'[t] = "res_assert")
                => construction' = construction
       /\ \A t \in Ctx :
            SoleEnterCaller(t)'
                => initCount' = IF PastConstruction(t)' THEN 1 ELSE 0]_vars

\* a single context has completed all its sections on one construction
C13_Witness ==
    \E t \in Ctx :
        /\ SoleEnterCaller(t)
        /\ rounds[t] = Rounds /\ IdleOutside(t)
        /\ initCount = 1 /\ criticalSectionInitialized = TBX_TRUE

\* C14: the assertion of TbxPortInterruptsRestore depends on the flag alone:
\* it fires exactly when the flag is false when it is evaluated, whoever owns
\* the critical section, whatever the caller's nesting depth and argument.
C14_AssertionDependsOnFlagOnly ==
    [][\A t \in Ctx :
         (pc[t] = "res_assert" /\ pc'[t] # pc[t])
            => /\ (pc'[t] = AssertionFailed) <=> (criticalSectionInitialized = TBX_FALSE)
               /\ (pc'[t] = "res_leave") <=> (criticalSectionInitialized = TBX_TRUE)]_vars

\* the assertion has fired for one context and has let another through that
\* has no Enter outstanding, does not own the object and passed a token
\* other than 0
C14_Witness ==
    \E t \in Ctx : \E u \in Ctx :
        /\ pc[t] = AssertionFailed
        /\ pc[u] = "res_leave" /\ depth[u] = 0 /\ prev_cpu_sr[u] # 0
        /\ criticalSection.OwningThread # u

\* C15: whenever the flag is true the object has been constructed (the flag
\* is written only after InitializeCriticalSection has returned), and a
\* context about to call EnterCriticalSection or LeaveCriticalSection finds
\* a constructed object.
C15_FlagImpliesConstructed ==
    /\ criticalSectionInitialized = TBX_TRUE => criticalSection.constructed
    /\ \A t \in Ctx : pc[t] = "dis_setflag" => criticalSection.constructed
    /\ \A t \in Ctx :
        pc[t] \in {"dis_enter", "res_leave"}
            => criticalSectionInitialized = TBX_TRUE /\ criticalSection.constructed

\* with the flag true, one context is about to enter and another about to
\* leave the constructed object
C15_Witness ==
    /\ criticalSectionInitialized = TBX_TRUE
    /\ criticalSection.constructed
    /\ \E t \in Ctx : \E u \in Ctx : pc[t] = "dis_enter" /\ pc[u] = "res_leave"

\* C16: no global deadlock with correctly paired callers: never is some
\* context unfinished while every unfinished context waits in
\* EnterCriticalSection, also after a concurrent first use of Enter.
C16_NoGlobalDeadlock ==
    ~(/\ \E t \in Ctx : ~Finished(t)
      /\ \A t \in Ctx : ~Finished(t) => Blocked(t))

====
